---- MODULE Spec2Model ----
(***************************************************************************)
(* Model of research_pipelines/denoising_with_wavelets/                    *)
(* pytorch_wavelet_train.py: the wavelet pyramid loss, the deep inverse    *)
(* reconstruction loss, checkpoint selection and the epoch loop of         *)
(* CustomTrainingPipeline.                                                 *)
(*                                                                         *)
(* Real-valued quantities (losses, accuracies, decay factors) are exact    *)
(* rationals <<numerator, denominator>>; IEEE rounding is not modelled.    *)
(* Learning rates are integers in units of 1e-12, accuracies in units of   *)
(* 1e-7.                                                                   *)
(***************************************************************************)
EXTENDS Integers, Sequences, FiniteSets, TLC

(***************************************************************************)
(* Bounds of the model                                                     *)
(***************************************************************************)
MaxLevels == 3

(***************************************************************************)
(* Exact rational arithmetic                                               *)
(***************************************************************************)
Rat(n) == <<n, 1>>

RatAdd(a, b) == <<a[1] * b[2] + b[1] * a[2], a[2] * b[2]>>

RatMul(a, b) == <<a[1] * b[1], a[2] * b[2]>>

RatEq(a, b) == a[1] * b[2] = b[1] * a[2]

\* a < b, denominators are positive
RatLt(a, b) == a[1] * b[2] < b[1] * a[2]

RECURSIVE Pow(_, _)
Pow(b, e) == IF e = 0 THEN 1 ELSE b * Pow(b, e - 1)

RatPow(a, e) == <<Pow(a[1], e), Pow(a[2], e)>>

None == "None"

(***************************************************************************)
(* Tensors of the wavelet pyramid loss.  A tensor is the sequence of its   *)
(* channels (dim=1); a channel names the tensor it was cut from and the    *)
(* sub-band path by which it was obtained.                                 *)
(***************************************************************************)
ImageChannels == 3

Bands == <<"LL", "LH", "HL", "HH">>

GtImage == [c \in 1..ImageChannels |->
              [src |-> "gt", lvl |-> 0, ch |-> c, path |-> << >>]]

\* one level of the predicted pyramid: 4 bands of ImageChannels channels
PredLevel(i) == [c \in 1..(4 * ImageChannels) |->
                   [src |-> "pred", lvl |-> i, ch |-> c, path |-> << >>]]

PredPyramid(L) == [i \in 1..L |-> PredLevel(i - 1)]

\* t[:, k:]
SliceFrom(t, k) == SubSeq(t, k + 1, Len(t))

\* t[:, :k]
SliceTo(t, k) == SubSeq(t, 1, k)

\* utils.haar_utils.HaarForward: the four sub-bands of every channel,
\* packed band after band along dim=1
HaarForward(x) ==
    [k \in 1..(4 * Len(x)) |->
        LET b == ((k - 1) \div Len(x)) + 1
            c == ((k - 1) % Len(x)) + 1
        IN  [x[c] EXCEPT !.path = Append(@, Bands[b])]]

DWTHaar(x) ==
    LET out  == HaarForward(x)
        step == Len(out) \div 4
    IN  << SubSeq(out, 1, step),
           SubSeq(out, step + 1, step * 2),
           SubSeq(out, step * 2 + 1, step * 3),
           SubSeq(out, step * 3 + 1, Len(out)) >>

(***************************************************************************)
(* _compute_wavelets_loss                                                  *)
(***************************************************************************)
AddLoss(loss1, loss2) == IF loss1 = None THEN loss2 ELSE RatAdd(loss1, loss2)

\* line 282: _loss = self._add_loss(_loss, criterion(...)) * _loss_scale
WaveletsAccumulate(loss, li, scale) == RatMul(AddLoss(loss, li), scale)

\* line 282: pred_wavelets_pyramid[i][:, 3:]
PredDetailAlt(t) == SliceTo(t, 3)

PredDetail(t) == SliceFrom(t, 3)

\* line 281: torch.cat((gt_lh, gt_hl, gt_hh), dim=1)
GtWavelets(d) == d[2] \o d[3] \o d[4]

\* line 286: gt_d0_ll = gt_ll
NextGtAlt(d, cur) == cur

NextGt(d, cur) == d[1]

\* the whole loop on given per-level criterion values, as the code runs it
RECURSIVE WaveletsLoop(_, _, _, _, _)
WaveletsLoop(losses, i, loss, scale, factor) ==
    IF i > Len(losses) THEN loss
    ELSE WaveletsLoop(losses, i + 1,
                      WaveletsAccumulate(loss, Rat(losses[i]), scale),
                      RatMul(scale, factor), factor)

ComputeWaveletsLoss(losses, factor) ==
    WaveletsLoop(losses, 1, None, Rat(1), factor)

VARIABLES
    w_pyr,          \* pred_wavelets_pyramid
    w_gt,           \* gt_image
    w_factor,       \* factor
    w_i,            \* number of loop iterations done
    w_gt_d0_ll,     \* gt_d0_ll
    w_loss,         \* _loss
    w_loss_scale,   \* _loss_scale
    w_pc,           \* "idle", "loop", "returned"
    w_result,       \* value returned
    w_dwt_in,       \* inputs of the calls of self.dwt, in order
    w_calls         \* calls of self.wavelets_criterion, in order

wvars == <<w_pyr, w_gt, w_factor, w_i, w_gt_d0_ll, w_loss, w_loss_scale,
           w_pc, w_result, w_dwt_in, w_calls>>

Factors == {<<1, 1>>, <<1, 2>>, <<3, 4>>}

LossValues == {0, 1, 2}

WInit ==
    /\ \E L \in 0..MaxLevels : w_pyr = PredPyramid(L)
    /\ w_gt = GtImage
    /\ w_factor \in Factors
    /\ w_i = 0
    /\ w_gt_d0_ll = w_gt
    /\ w_loss = None
    /\ w_loss_scale = Rat(1)
    /\ w_pc = "loop"
    /\ w_result = None
    /\ w_dwt_in = << >>
    /\ w_calls = << >>

WIdle ==
    /\ w_pyr = << >> /\ w_gt = << >> /\ w_factor = Rat(1) /\ w_i = 0
    /\ w_gt_d0_ll = << >> /\ w_loss = None /\ w_loss_scale = Rat(1)
    /\ w_pc = "idle" /\ w_result = None /\ w_dwt_in = << >>
    /\ w_calls = << >>

\* one pass of the body of the for loop, lines 278-286
WaveletsIter ==
    /\ w_pc = "loop"
    /\ w_i < Len(w_pyr)
    /\ \E l \in LossValues :
         LET d == DWTHaar(w_gt_d0_ll)
         IN  /\ w_loss' = WaveletsAccumulate(w_loss, Rat(l), w_loss_scale)
             /\ w_calls' = Append(w_calls,
                              [pred  |-> PredDetail(w_pyr[w_i + 1]),
                               gt    |-> GtWavelets(d),
                               value |-> l])
             /\ w_gt_d0_ll' = NextGt(d, w_gt_d0_ll)
    /\ w_dwt_in' = Append(w_dwt_in, w_gt_d0_ll)
    /\ w_loss_scale' = RatMul(w_loss_scale, w_factor)
    /\ w_i' = w_i + 1
    /\ UNCHANGED <<w_pyr, w_gt, w_factor, w_pc, w_result>>

\* line 288: return _loss
WaveletsReturn ==
    /\ w_pc = "loop"
    /\ w_i >= Len(w_pyr)
    /\ w_pc' = "returned"
    /\ w_result' = w_loss
    /\ UNCHANGED <<w_pyr, w_gt, w_factor, w_i, w_gt_d0_ll, w_loss,
                   w_loss_scale, w_dwt_in, w_calls>>

(***************************************************************************)
(* Tensors of the deep inverse reconstruction.  A channel is a square      *)
(* matrix of integers, a tensor the sequence of its channels.  Every       *)
(* entry of a tensor of the initial state is even, which keeps the         *)
(* halving of the inverse transform exact.                                 *)
(***************************************************************************)
MaxIwtLevels == 3

Plane(n, v) == [r \in 1..n |-> [c \in 1..n |-> v]]

\* a pyramid level whose approximation band is the constant a and whose
\* three detail bands are the constant d
ConstLevel(n, a, d) ==
    [k \in 1..(4 * ImageChannels) |->
        IF k <= ImageChannels THEN Plane(n, a) ELSE Plane(n, d)]

\* torch.split(t, k, dim=1)
Split(t, k) == [g \in 1..(Len(t) \div k) |-> SubSeq(t, (g - 1) * k + 1, g * k)]

\* t * s
Scale(t, s) ==
    [k \in 1..Len(t) |->
        [r \in 1..Len(t[k]) |-> [c \in 1..Len(t[k][r]) |-> t[k][r][c] * s]]]

\* utils.haar_utils.HaarInverse: the orthonormal inverse of the 2-D Haar
\* transform; x packs the four bands along dim=1
HaarInverse(x) ==
    LET n == Len(x) \div 4
        m == Len(x[1])
    IN  [k \in 1..n |->
          [r \in 1..(2 * m) |->
            [c \in 1..(2 * m) |->
               LET i  == (r + 1) \div 2
                   j  == (c + 1) \div 2
                   sr == IF r % 2 = 1 THEN 1 ELSE -1
                   sc == IF c % 2 = 1 THEN 1 ELSE -1
                   ll == x[k][i][j]
                   lh == x[n + k][i][j]
                   hl == x[2 * n + k][i][j]
                   hh == x[3 * n + k][i][j]
               IN  (ll + sr * lh + sc * hl + sr * sc * hh) \div 2]]]

IWTHaar(ll, lh, hl, hh) == HaarInverse(ll \o lh \o hl \o hh)

\* line 291: pred_wavelets_pyramid[-1][:, :3]
DeepIwtStart(pyr) == SliceTo(pyr[Len(pyr)], 3)

\* lines 294-295 with the rescale left out
DeepIwtStepNoRescale(composed, level) ==
    LET s == Split(level, 3)
    IN  IWTHaar(composed, s[2], s[3], s[4])

\* lines 294-295
DeepIwtStep(composed, level) ==
    LET s == Split(level, 3)
    IN  Scale(IWTHaar(composed, s[2], s[3], s[4]), 2)

VARIABLES
    i_pyr,          \* pred_wavelets_pyramid
    i_i,            \* loop variable i (0-based level), -1 after the loop
    i_composed,     \* composed_image
    i_pc,           \* "idle", "start", "loop", "returned", "raised"
    i_result,       \* value returned, or the exception raised
    i_inversions    \* number of calls of self.iwt so far

ivars == <<i_pyr, i_i, i_composed, i_pc, i_result, i_inversions>>

ApproxValues == {0, 2, 4}

DetailValues == {0, 2}

OtherApproxValues == {0, 6}

\* pyramids of L levels, level 1 the finest; the coarsest band is 1 x 1
IwtPyramids(L) ==
    IF L = 0 THEN { << >> }
    ELSE { [i \in 1..L |->
              ConstLevel(Pow(2, L - i),
                         IF i = L THEN v ELSE a[i], d[i])] :
             v \in ApproxValues,
             a \in [1..L -> OtherApproxValues],
             d \in [1..L -> DetailValues] }

IInit ==
    /\ \E L \in 0..MaxIwtLevels : i_pyr \in IwtPyramids(L)
    /\ i_i = -1
    /\ i_composed = << >>
    /\ i_pc = "start"
    /\ i_result = None
    /\ i_inversions = 0

IIdle ==
    /\ i_pyr = << >> /\ i_i = -1 /\ i_composed = << >> /\ i_pc = "idle"
    /\ i_result = None /\ i_inversions = 0

\* line 291; indexing an empty list raises IndexError
DeepIwtBegin ==
    /\ i_pc = "start"
    /\ IF Len(i_pyr) = 0
          THEN /\ i_pc' = "raised"
               /\ i_result' = "IndexError"
               /\ UNCHANGED <<i_composed, i_i>>
          ELSE /\ i_composed' = DeepIwtStart(i_pyr)
               /\ i_i' = Len(i_pyr) - 1
               /\ i_pc' = "loop"
               /\ UNCHANGED i_result
    /\ UNCHANGED <<i_pyr, i_inversions>>

\* one pass of the body of the for loop, lines 293-295
DeepIwtIter ==
    /\ i_pc = "loop"
    /\ i_i >= 0
    /\ i_composed' = DeepIwtStep(i_composed, i_pyr[i_i + 1])
    /\ i_inversions' = i_inversions + 1
    /\ i_i' = i_i - 1
    /\ UNCHANGED <<i_pyr, i_pc, i_result>>

\* lines 297-299: the value of images_criterion is an input
DeepIwtReturn ==
    /\ i_pc = "loop"
    /\ i_i < 0
    /\ \E l \in LossValues : i_result' = Rat(l)
    /\ i_pc' = "returned"
    /\ UNCHANGED <<i_pyr, i_i, i_composed, i_inversions>>

(***************************************************************************)
(* Checkpoint selection: best_test_score and the two checkpoint files.     *)
(* Accuracies are rationals in units of 1e-7.                              *)
(***************************************************************************)
MaxCalls == 4

\* 1E-5 of line 485, in units of 1e-7
AccEpsilon == 100

RatSub(a, b) == RatAdd(a, <<-b[1], b[2]>>)

\* line 485 without the tolerance
IsImprovedNoTolerance(best, acc) == RatLt(RatSub(best, acc), Rat(0))

\* line 485: self.best_test_score - avg_acc_rate < -1E-5
IsImproved(best, acc) == RatLt(RatSub(best, acc), Rat(-AccEpsilon))

\* no file at the path
NoRecord == [file |-> FALSE, acc |-> Rat(0), epoch |-> 0]

VARIABLES
    best_test_score,    \* self.best_test_score
    last_trh,           \* the record in checkpoints/last.trh
    best_trh,           \* the record in checkpoints/best.trh
    last_writes,        \* number of torch.save calls on last.trh
    best_writes,        \* number of torch.save calls on best.trh
    load_data,          \* the record read from load_path (line 206)
    c_hist,             \* accuracies passed to _save_best_checkpoint so far
    c_best_steps        \* the calls (counted from 1) that wrote best.trh

cvars == <<best_test_score, last_trh, best_trh, last_writes, best_writes,
           load_data>>

chvars == <<c_hist, c_best_steps>>

\* lines 462-491 without the assignment of line 486
SaveBestCheckpointStaleScore(epoch, avg_acc_rate) ==
    LET save_state == [file |-> TRUE, acc |-> avg_acc_rate, epoch |-> epoch]
    IN  /\ last_trh' = save_state
        /\ last_writes' = last_writes + 1
        /\ UNCHANGED <<best_test_score, load_data>>
        /\ IF IsImproved(best_test_score, avg_acc_rate)
             THEN /\ best_trh' = save_state
                  /\ best_writes' = best_writes + 1
             ELSE UNCHANGED <<best_trh, best_writes>>

\* _save_best_checkpoint(epoch, avg_acc_rate), lines 462-491
SaveBestCheckpoint(epoch, avg_acc_rate) ==
    LET save_state == [file |-> TRUE, acc |-> avg_acc_rate, epoch |-> epoch]
    IN  /\ last_trh' = save_state
        /\ last_writes' = last_writes + 1
        /\ UNCHANGED load_data
        /\ IF IsImproved(best_test_score, avg_acc_rate)
             THEN /\ best_test_score' = avg_acc_rate
                  /\ best_trh' = save_state
                  /\ best_writes' = best_writes + 1
             ELSE UNCHANGED <<best_test_score, best_trh, best_writes>>

\* accuracies in units of 1e-7: 0, 5e-6, 1e-5, 1.01e-5, 9.9, 10.0, 10.2,
\* 10.2000001 and -1.0
AccValues == {0, 50, 100, 101, 99000000, 100000000, 102000000, 102000001,
              -10000000}

\* a record left in the experiment folder by an earlier run
OldRecord == [file |-> TRUE, acc |-> Rat(200000000), epoch |-> 7]

\* a record an earlier run wrote at its first epochs
EarlyRecord == [file |-> TRUE, acc |-> Rat(50), epoch |-> 2]

\* what torch.load of line 206 returns; NoRecord when load_path is None
LoadedRecords == {NoRecord, OldRecord, EarlyRecord}

\* line 115 with the accuracy of the loaded record
InitialBestScoreFromCheckpoint(ckpt) == IF ckpt.file THEN ckpt.acc ELSE Rat(0)

\* line 115: self.best_test_score = 0; lines 205-223 read only the 'model'
\* and 'optimizer' entries of the loaded record
InitialBestScore(ckpt) == Rat(0)

\* line 115, and the checkpoint files as the constructor finds them
CInit ==
    /\ load_data \in LoadedRecords
    /\ best_test_score = InitialBestScore(load_data)
    /\ last_trh \in {NoRecord, OldRecord}
    /\ best_trh \in {NoRecord, OldRecord}
    /\ (last_trh = NoRecord) = (best_trh = NoRecord)
    /\ last_writes = 0
    /\ best_writes = 0

CHInit ==
    /\ c_hist = << >>
    /\ c_best_steps = {}

CIdle ==
    /\ best_test_score = Rat(0) /\ last_trh = NoRecord /\ best_trh = NoRecord
    /\ last_writes = 0 /\ best_writes = 0 /\ load_data = NoRecord

\* one call of _save_best_checkpoint, the epochs counted from 1
CkptCall ==
    /\ Len(c_hist) < MaxCalls
    /\ \E a \in AccValues :
         /\ SaveBestCheckpoint(Len(c_hist) + 1, Rat(a))
         /\ c_hist' = Append(c_hist, Rat(a))
    /\ c_best_steps' = IF best_writes' # best_writes
                         THEN c_best_steps \cup {Len(c_hist) + 1}
                         ELSE c_best_steps

(***************************************************************************)
(* Configuration, optimizer and scheduler.  Learning rates are integers    *)
(* in units of 1e-12; every decay of the model divides exactly.            *)
(***************************************************************************)
MaxEpochs == 3

MaxResume == 2

MaxLrSteps == 2

MaxTrain == 1

MaxVal == 1

\* 1E-9 of line 494, in units of 1e-12
StopTolerance == 1000

\* gamma=0.1 of line 258 is a division by 10
GammaInverse == 10

VARIABLES
    epochs,             \* self.epochs
    resume_epoch,       \* self.resume_epoch
    stop_criteria,      \* self.stop_criteria
    lr_steps,           \* lr_steps
    n_train,            \* len(self.train_dataloader)
    n_val,              \* len(self.val_dataset)
    perceptual,         \* self.perceptual_loss is not None
    lr,                 \* param_group['lr'] of the optimizer
    scheduler           \* self.scheduler

gvars == <<epochs, resume_epoch, stop_criteria, lr_steps, n_train, n_val,
           perceptual>>

ovars == <<lr, scheduler>>

\* lines 249-253: int(i * (epochs / _lr_steps)) for i in range(1, _lr_steps)
LrMilestones(ep, steps) ==
    [i \in 1..steps |-> (i * ep) \div (steps + 1)]

\* the number of milestones equal to e (MultiStepLR keeps a Counter)
MilestoneCount(ms, e) == Cardinality({i \in 1..Len(ms) : ms[i] = e})

\* MultiStepLR.step(): last_epoch advances, and the rate is multiplied by
\* gamma once for every milestone equal to the new last_epoch
SchedulerStepLr(sch, rate) ==
    rate \div Pow(GammaInverse, MilestoneCount(sch.milestones, sch.last_epoch + 1))

SchedulerStepState(sch) == [sch EXCEPT !.last_epoch = @ + 1]

NoScheduler == [active |-> FALSE, milestones |-> << >>, last_epoch |-> -1]

\* lines 248-262; the constructor of MultiStepLR makes one step
NewScheduler(ep, steps) ==
    IF steps > 0
      THEN SchedulerStepState([active |-> TRUE,
                               milestones |-> LrMilestones(ep, steps),
                               last_epoch |-> -1])
      ELSE NoScheduler

NewLr(ep, steps, rate) ==
    IF steps > 0
      THEN SchedulerStepLr([active |-> TRUE,
                            milestones |-> LrMilestones(ep, steps),
                            last_epoch |-> -1], rate)
      ELSE rate

\* line 494 with <= in place of <
CheckStopCriteriaAtThreshold(rate, stop) == rate - stop <= 0

\* line 494: self.get_lr() - self.stop_criteria < -1E-9
CheckStopCriteria(rate, stop) == rate - stop < 0 - StopTolerance

\* the rate of the optimizer when the scheduler is built and stop_criteria:
\* lr=0.0001 of line 201 with stop_criteria 1e-5; rates 1e-6, 5e-6 and 5e-8
\* of a loaded optimizer (line 220) with the default stop_criteria 1e-7
LrCases == { [rate |-> 100000000, stop |-> 10000000],
             [rate |-> 1000000,   stop |-> 100000],
             [rate |-> 5000000,   stop |-> 100000],
             [rate |-> 50000,     stop |-> 100000] }

\* the pipeline as __init__ leaves it: line 231 sets a perceptual loss; the
\* data sets are empty or hold MaxTrain batches and MaxVal samples
GInit ==
    /\ epochs \in 0..MaxEpochs
    /\ resume_epoch \in 1..MaxResume
    /\ lr_steps \in 0..MaxLrSteps
    /\ n_train \in {0, MaxTrain}
    /\ n_val \in {0, MaxVal}
    /\ perceptual = TRUE
    /\ \E c \in LrCases :
         /\ stop_criteria = c.stop
         /\ lr = NewLr(epochs, lr_steps, c.rate)
    /\ scheduler = NewScheduler(epochs, lr_steps)

\* the configurations of the step-by-step model: a run of MaxEpochs epochs
\* from epoch 1, without a scheduler or with MaxLrSteps milestones, with
\* the perceptual loss of line 231 or with none (line 232)
SInit ==
    /\ epochs = MaxEpochs
    /\ resume_epoch = 1
    /\ lr_steps \in {0, MaxLrSteps}
    /\ n_train \in 0..MaxTrain
    /\ n_val \in 0..MaxVal
    /\ perceptual \in BOOLEAN
    /\ stop_criteria = 100000
    /\ lr = NewLr(epochs, lr_steps, 1000000)
    /\ scheduler = NewScheduler(epochs, lr_steps)

GIdle ==
    /\ epochs = 0 /\ resume_epoch = 1 /\ stop_criteria = 0 /\ lr_steps = 0
    /\ n_train = 0 /\ n_val = 0 /\ perceptual = FALSE /\ lr = 0
    /\ scheduler = NoScheduler

(***************************************************************************)
(* Loss composition of _train_step and _validation_step                    *)
(***************************************************************************)
\* lines 340-344 and 415-418: the pixel loss, blended with the perceptual
\* loss when there is one
PixelLoss(px, pl, perc) ==
    IF perc THEN RatAdd(RatMul(Rat(px), <<1, 2>>), RatMul(Rat(pl), <<1, 2>>))
            ELSE Rat(px)

\* line 351 without the wavelet term
TotalLossPixelOnly(loss, wloss) == loss

\* line 351: total_loss = loss + wloss * 0.2
TotalLoss(loss, wloss) == RatAdd(loss, RatMul(wloss, <<1, 5>>))

\* lines 415-420 with the composition of line 351
ValSampleLossWithWavelets(s, perc) ==
    TotalLoss(PixelLoss(s.px, s.pl, perc), ComputeWaveletsLoss(s.lv, Rat(1)))

\* lines 415-420: the loss of one validation sample
ValSampleLoss(s, perc) == PixelLoss(s.px, s.pl, perc)

PixelValues == {2, 4}

PerceptualValues == {0, 6}

LevelLossValues == {0, 5}

\* the numbers of levels of the pyramids the model predicts
PyramidDepths == {1, 2}

\* the criterion values of the levels of one predicted pyramid
LevelLosses == UNION { [1..n -> LevelLossValues] : n \in PyramidDepths }

\* accuracies (PSNR) of single samples, in units of 1e-7
SampleAccValues == {99000000, 100000000}

\* what the criteria return on one training batch
Batches == [px : PixelValues, pl : PerceptualValues, lv : LevelLosses]

\* what the criteria and the accuracy measure return on one validation
\* sample; lv belongs to the pyramid the model predicts during inference
Samples == [px : PixelValues, pl : PerceptualValues, lv : LevelLosses,
            psnr : SampleAccValues]

\* lines 325-364 and 392 on the batches bs: the value _train_step returns
RECURSIVE TrainLoop(_, _, _, _)
TrainLoop(bs, k, avg, perc) ==
    IF k > Len(bs) THEN avg
    ELSE TrainLoop(bs, k + 1,
                   RatAdd(avg, RatMul(PixelLoss(bs[k].px, bs[k].pl, perc),
                                      <<1, Len(bs)>>)),
                   perc)

TrainStepResult(bs, perc) == TrainLoop(bs, 1, Rat(0), perc)

\* lines 396-440 on the samples ss: the sums, then the averages
RECURSIVE ValLoop(_, _, _, _)
ValLoop(ss, k, acc, perc) ==
    IF k > Len(ss) THEN acc
    ELSE ValLoop(ss, k + 1,
                 [loss |-> RatAdd(acc.loss, ValSampleLoss(ss[k], perc)),
                  acc  |-> RatAdd(acc.acc, Rat(ss[k].psnr)),
                  len  |-> acc.len + 1],
                 perc)

\* lines 438-440
Average(sum, len) == IF len > 0 THEN RatMul(sum, <<1, len>>) ELSE sum

ValidationScores(ss, perc) ==
    LET sums == ValLoop(ss, 1, [loss |-> Rat(0), acc |-> Rat(0), len |-> 0], perc)
    IN  [loss |-> Average(sums.loss, sums.len),
         acc  |-> Average(sums.acc, sums.len)]

(***************************************************************************)
(* One call of _train_step followed by one call of _validation_step,       *)
(* batch by batch and sample by sample                                     *)
(***************************************************************************)
VARIABLES
    e_pc,               \* "idle", "train", "forward", "losses", "validate",
                        \* "returned"
    e_b,                \* batches done
    e_batch,            \* the criterion values of the batch in hand
    e_loss,             \* loss
    e_wloss,            \* wloss
    e_total,            \* total_loss
    e_backprop,         \* the value whose backward() ran last
    e_calls,            \* the calls made for the batch in hand, in order
    e_opt_steps,        \* number of optimizer.step() calls
    avg_epoch_loss,     \* avg_epoch_loss
    e_samples,          \* the validation samples scored so far
    avg_loss_rate,      \* avg_loss_rate
    avg_acc_rate,       \* avg_acc_rate
    test_len,           \* test_len
    e_sched_steps       \* number of scheduler.step() calls

evars == <<e_pc, e_b, e_batch, e_loss, e_wloss, e_total, e_backprop, e_calls,
           e_opt_steps, avg_epoch_loss, e_samples, avg_loss_rate,
           avg_acc_rate, test_len, e_sched_steps>>

NoBatch == [px |-> 0, pl |-> 0, lv |-> << >>]

EInit ==
    /\ e_pc = "train" /\ e_b = 0 /\ e_batch = NoBatch
    /\ e_loss = Rat(0) /\ e_wloss = Rat(0) /\ e_total = Rat(0)
    /\ e_backprop = Rat(0) /\ e_calls = << >> /\ e_opt_steps = 0
    /\ avg_epoch_loss = Rat(0) /\ e_samples = << >>
    /\ avg_loss_rate = Rat(0) /\ avg_acc_rate = Rat(0) /\ test_len = 0
    /\ e_sched_steps = 0

EIdle ==
    /\ e_pc = "idle" /\ e_b = 0 /\ e_batch = NoBatch
    /\ e_loss = Rat(0) /\ e_wloss = Rat(0) /\ e_total = Rat(0)
    /\ e_backprop = Rat(0) /\ e_calls = << >> /\ e_opt_steps = 0
    /\ avg_epoch_loss = Rat(0) /\ e_samples = << >>
    /\ avg_loss_rate = Rat(0) /\ avg_acc_rate = Rat(0) /\ test_len = 0
    /\ e_sched_steps = 0

\* lines 328-336: the next batch, zero_grad and the forward pass
TrainForward ==
    /\ e_pc = "train"
    /\ e_b < n_train
    /\ e_batch' \in Batches
    /\ e_calls' = <<"zero_grad", "model">>
    /\ e_pc' = "forward"
    /\ UNCHANGED <<e_b, e_loss, e_wloss, e_total, e_backprop, e_opt_steps,
                   avg_epoch_loss, e_samples, avg_loss_rate, avg_acc_rate,
                   test_len, e_sched_steps>>
    /\ UNCHANGED <<gvars, ovars>>

\* lines 340-351
TrainLosses ==
    /\ e_pc = "forward"
    /\ LET loss  == PixelLoss(e_batch.px, e_batch.pl, perceptual)
           wloss == ComputeWaveletsLoss(e_batch.lv, Rat(1))
       IN  /\ e_loss' = loss
           /\ e_wloss' = wloss
           /\ e_total' = TotalLoss(loss, wloss)
    /\ e_calls' = e_calls \o <<"images_criterion">>
                     \o (IF perceptual THEN <<"perceptual_loss">> ELSE << >>)
                     \o <<"_compute_wavelets_loss">>
    /\ e_pc' = "losses"
    /\ UNCHANGED <<e_b, e_batch, e_backprop, e_opt_steps, avg_epoch_loss,
                   e_samples, avg_loss_rate, avg_acc_rate, test_len,
                   e_sched_steps>>
    /\ UNCHANGED <<gvars, ovars>>

\* lines 353-390
TrainBackward ==
    /\ e_pc = "losses"
    /\ e_backprop' = e_total
    /\ e_calls' = e_calls \o <<"backward", "clip_grad_norm_", "optimizer.step">>
    /\ e_opt_steps' = e_opt_steps + 1
    /\ avg_epoch_loss' = RatAdd(avg_epoch_loss, RatMul(e_loss, <<1, n_train>>))
    /\ e_b' = e_b + 1
    /\ e_pc' = "train"
    /\ UNCHANGED <<e_batch, e_loss, e_wloss, e_total, e_samples,
                   avg_loss_rate, avg_acc_rate, test_len, e_sched_steps>>
    /\ UNCHANGED <<gvars, ovars>>

\* line 392: the locals of _train_step end here; lines 395-398 of the call
\* of _validation_step that follows
TrainReturn ==
    /\ e_pc = "train"
    /\ e_b >= n_train
    /\ e_pc' = "validate"
    /\ e_batch' = NoBatch
    /\ e_loss' = Rat(0) /\ e_wloss' = Rat(0) /\ e_total' = Rat(0)
    /\ e_backprop' = Rat(0)
    /\ e_calls' = << >>
    /\ UNCHANGED <<e_b, e_opt_steps, avg_epoch_loss, e_samples,
                   avg_loss_rate, avg_acc_rate, test_len, e_sched_steps>>
    /\ UNCHANGED <<gvars, ovars>>

\* lines 401-436: one validation sample
ValSample ==
    /\ e_pc = "validate"
    /\ Len(e_samples) < n_val
    /\ \E s \in Samples :
         /\ e_samples' = Append(e_samples, s)
         /\ avg_loss_rate' = RatAdd(avg_loss_rate, ValSampleLoss(s, perceptual))
         /\ avg_acc_rate' = RatAdd(avg_acc_rate, Rat(s.psnr))
    /\ test_len' = test_len + 1
    /\ UNCHANGED <<e_pc, e_b, e_batch, e_loss, e_wloss, e_total, e_backprop,
                   e_calls, e_opt_steps, avg_epoch_loss, e_sched_steps>>
    /\ UNCHANGED <<gvars, ovars>>

\* lines 438-445
ValFinish ==
    /\ e_pc = "validate"
    /\ Len(e_samples) >= n_val
    /\ avg_acc_rate' = Average(avg_acc_rate, test_len)
    /\ avg_loss_rate' = Average(avg_loss_rate, test_len)
    /\ IF scheduler.active
         THEN /\ lr' = SchedulerStepLr(scheduler, lr)
              /\ scheduler' = SchedulerStepState(scheduler)
              /\ e_sched_steps' = e_sched_steps + 1
         ELSE UNCHANGED <<lr, scheduler, e_sched_steps>>
    /\ e_pc' = "returned"
    /\ UNCHANGED <<e_b, e_batch, e_loss, e_wloss, e_total, e_backprop,
                   e_calls, e_opt_steps, avg_epoch_loss, e_samples, test_len>>
    /\ UNCHANGED gvars

(***************************************************************************)
(* fit: the loop over the epochs, one action per phase                     *)
(***************************************************************************)
VARIABLES
    pc,                 \* "idle", "for", "train", "validate", "schedule",
                        \* "save", "check", "done"
    epoch_num,          \* epoch_num
    final,              \* "running", "criteria_met" (break), "max_epochs"
    epoch_train_loss,   \* epoch_train_loss
    val_loss,           \* val_loss
    val_acc,            \* val_acc
    phases,             \* the phases of the epoch in hand, in order
    executed,           \* the epoch numbers whose body was entered, in order
    end_lr,             \* the rate read at the end of each of them
    trained,            \* per _train_step call: the rate and the batches
    f_sched_steps       \* number of scheduler.step() calls of the run

fvars == <<pc, epoch_num, final, epoch_train_loss, val_loss, val_acc, phases,
           executed, end_lr, trained, f_sched_steps>>

\* the batches and samples the epochs of fit draw from
FitBatches == { b \in Batches : b.pl = 6 /\ b.lv \in {<<5>>, <<0, 5>>} }

FitSamples == { x \in Samples : x.pl = 6 /\ x.px = 2 /\ x.lv = <<5>> }

SeqsOf(S, n) == [1..n -> S]

FInit ==
    /\ pc = "for"
    /\ epoch_num = resume_epoch
    /\ final = "running"
    /\ epoch_train_loss = Rat(0) /\ val_loss = Rat(0) /\ val_acc = Rat(0)
    /\ phases = << >> /\ executed = << >> /\ end_lr = << >>
    /\ trained = << >> /\ f_sched_steps = 0

FIdle ==
    /\ pc = "idle" /\ epoch_num = 0 /\ final = "running"
    /\ epoch_train_loss = Rat(0) /\ val_loss = Rat(0) /\ val_acc = Rat(0)
    /\ phases = << >> /\ executed = << >> /\ end_lr = << >>
    /\ trained = << >> /\ f_sched_steps = 0

\* line 497 with one epoch too many
InRangeInclusiveNext(n, first, last) == n <= last + 1

\* line 497: epoch_num in range(self.resume_epoch, self.epochs + 1)
InRange(n, first, last) == first <= n /\ n < last + 1

\* line 497: the head of the for loop
FitFor ==
    /\ pc = "for"
    /\ IF InRange(epoch_num, resume_epoch, epochs)
         THEN /\ pc' = "train"
              /\ executed' = Append(executed, epoch_num)
              /\ phases' = << >>
              /\ final' = final
         ELSE /\ pc' = "done"
              /\ final' = "max_epochs"
              /\ UNCHANGED <<executed, phases>>
    /\ UNCHANGED <<epoch_num, epoch_train_loss, val_loss, val_acc, end_lr,
                   trained, f_sched_steps>>
    /\ UNCHANGED <<gvars, ovars, cvars>>

\* line 498: the call of _train_step
FitTrain ==
    /\ pc = "train"
    /\ \E bs \in SeqsOf(FitBatches, n_train) :
         epoch_train_loss' = TrainStepResult(bs, perceptual)
    /\ trained' = Append(trained, [epoch |-> epoch_num, rate |-> lr,
                                   batches |-> n_train])
    /\ phases' = Append(phases, "train")
    /\ pc' = "validate"
    /\ UNCHANGED <<epoch_num, final, val_loss, val_acc, executed, end_lr,
                   f_sched_steps>>
    /\ UNCHANGED <<gvars, ovars, cvars>>

\* line 499, lines 395-440 of _validation_step
FitValidate ==
    /\ pc = "validate"
    /\ \E ss \in SeqsOf(FitSamples, n_val) :
         LET r == ValidationScores(ss, perceptual)
         IN  /\ val_loss' = r.loss
             /\ val_acc' = r.acc
    /\ phases' = Append(phases, "validate")
    /\ pc' = "schedule"
    /\ UNCHANGED <<epoch_num, final, epoch_train_loss, executed, end_lr,
                   trained, f_sched_steps>>
    /\ UNCHANGED <<gvars, ovars, cvars>>

\* lines 442-445 with the scheduler stepped only when a sample was scored
FitScheduleOnlyWithSamples ==
    /\ pc = "schedule"
    /\ IF scheduler.active /\ n_val > 0
         THEN /\ lr' = SchedulerStepLr(scheduler, lr)
              /\ scheduler' = SchedulerStepState(scheduler)
              /\ f_sched_steps' = f_sched_steps + 1
              /\ phases' = Append(phases, "scheduler")
         ELSE UNCHANGED <<lr, scheduler, f_sched_steps, phases>>
    /\ epoch_train_loss' = Rat(0)
    /\ val_loss' = Rat(0)
    /\ pc' = "save"
    /\ UNCHANGED <<epoch_num, final, val_acc, executed, end_lr, trained>>
    /\ UNCHANGED <<gvars, cvars>>

\* lines 442-445 of _validation_step, and line 500, after which the two
\* losses are not read again
FitSchedule ==
    /\ pc = "schedule"
    /\ IF scheduler.active
         THEN /\ lr' = SchedulerStepLr(scheduler, lr)
              /\ scheduler' = SchedulerStepState(scheduler)
              /\ f_sched_steps' = f_sched_steps + 1
              /\ phases' = Append(phases, "scheduler")
         ELSE UNCHANGED <<lr, scheduler, f_sched_steps, phases>>
    /\ epoch_train_loss' = Rat(0)
    /\ val_loss' = Rat(0)
    /\ pc' = "save"
    /\ UNCHANGED <<epoch_num, final, val_acc, executed, end_lr, trained>>
    /\ UNCHANGED <<gvars, cvars>>

\* line 501
FitSave ==
    /\ pc = "save"
    /\ SaveBestCheckpoint(epoch_num, val_acc)
    /\ phases' = Append(phases, "checkpoint")
    /\ pc' = "check"
    /\ UNCHANGED <<epoch_num, final, epoch_train_loss, val_loss, val_acc,
                   executed, end_lr, trained, f_sched_steps>>
    /\ UNCHANGED <<gvars, ovars>>

\* lines 503-504 with the rate as it was before the scheduler step
FitCheckBeforeSchedulerStep ==
    /\ pc = "check"
    /\ phases' = Append(phases, "stop_check")
    /\ end_lr' = Append(end_lr, lr)
    /\ IF scheduler.active
          /\ CheckStopCriteria(trained[Len(trained)].rate, stop_criteria)
         THEN /\ pc' = "done"
              /\ final' = "criteria_met"
              /\ UNCHANGED epoch_num
         ELSE /\ pc' = "for"
              /\ epoch_num' = epoch_num + 1
              /\ UNCHANGED final
    /\ UNCHANGED <<epoch_train_loss, val_loss, val_acc, executed, trained,
                   f_sched_steps>>
    /\ UNCHANGED <<gvars, ovars, cvars>>

\* lines 503-504, and the step of the for loop
FitCheck ==
    /\ pc = "check"
    /\ phases' = Append(phases, "stop_check")
    /\ end_lr' = Append(end_lr, lr)
    /\ IF scheduler.active /\ CheckStopCriteria(lr, stop_criteria)
         THEN /\ pc' = "done"
              /\ final' = "criteria_met"
              /\ UNCHANGED epoch_num
         ELSE /\ pc' = "for"
              /\ epoch_num' = epoch_num + 1
              /\ UNCHANGED final
    /\ UNCHANGED <<epoch_train_loss, val_loss, val_acc, executed, trained,
                   f_sched_steps>>
    /\ UNCHANGED <<gvars, ovars, cvars>>

vars == <<wvars, ivars, cvars, chvars, gvars, ovars, evars, fvars>>

WNext ==
    \/ WaveletsIter /\ UNCHANGED <<ivars, cvars, chvars, gvars, ovars, evars, fvars>>
    \/ WaveletsReturn /\ UNCHANGED <<ivars, cvars, chvars, gvars, ovars, evars, fvars>>

InitWavelets ==
    WInit /\ IIdle /\ CIdle /\ CHInit /\ GIdle /\ EIdle /\ FIdle

SpecWavelets == InitWavelets /\ [][WNext]_vars

INext ==
    \/ DeepIwtBegin /\ UNCHANGED <<wvars, cvars, chvars, gvars, ovars, evars, fvars>>
    \/ DeepIwtIter /\ UNCHANGED <<wvars, cvars, chvars, gvars, ovars, evars, fvars>>
    \/ DeepIwtReturn /\ UNCHANGED <<wvars, cvars, chvars, gvars, ovars, evars, fvars>>

InitIWT ==
    IInit /\ WIdle /\ CIdle /\ CHInit /\ GIdle /\ EIdle /\ FIdle

SpecIWT == InitIWT /\ [][INext]_vars

CNext == CkptCall /\ UNCHANGED <<wvars, ivars, gvars, ovars, evars, fvars>>

InitCkpt ==
    CInit /\ CHInit /\ WIdle /\ IIdle /\ GIdle /\ EIdle /\ FIdle

SpecCkpt == InitCkpt /\ [][CNext]_vars

ENext ==
    \/ TrainForward /\ UNCHANGED <<wvars, ivars, cvars, chvars, fvars>>
    \/ TrainLosses /\ UNCHANGED <<wvars, ivars, cvars, chvars, fvars>>
    \/ TrainBackward /\ UNCHANGED <<wvars, ivars, cvars, chvars, fvars>>
    \/ TrainReturn /\ UNCHANGED <<wvars, ivars, cvars, chvars, fvars>>
    \/ ValSample /\ UNCHANGED <<wvars, ivars, cvars, chvars, fvars>>
    \/ ValFinish /\ UNCHANGED <<wvars, ivars, cvars, chvars, fvars>>

InitSteps ==
    SInit /\ EInit /\ WIdle /\ IIdle /\ CIdle /\ CHInit /\ FIdle

SpecSteps == InitSteps /\ [][ENext]_vars

FNext ==
    \/ FitFor /\ UNCHANGED <<wvars, ivars, chvars, evars>>
    \/ FitTrain /\ UNCHANGED <<wvars, ivars, chvars, evars>>
    \/ FitValidate /\ UNCHANGED <<wvars, ivars, chvars, evars>>
    \/ FitSchedule /\ UNCHANGED <<wvars, ivars, chvars, evars>>
    \/ FitSave /\ UNCHANGED <<wvars, ivars, chvars, evars>>
    \/ FitCheck /\ UNCHANGED <<wvars, ivars, chvars, evars>>

\* a run that resumes at a later epoch loads a record, a run from epoch 1
\* loads none
InitFit ==
    /\ GInit /\ FInit /\ CInit /\ CHInit /\ WIdle /\ IIdle /\ EIdle
    /\ load_data = IF resume_epoch > 1 THEN OldRecord ELSE NoRecord

SpecFit == InitFit /\ [][FNext]_vars

\* fit is one sequential call: a step that can be taken is taken
FairSpecFit == SpecFit /\ WF_vars(FNext)

(***************************************************************************)
(* Properties of _compute_wavelets_loss                                    *)
(***************************************************************************)
RECURSIVE SumValues(_, _)
SumValues(calls, k) ==
    IF k = 0 THEN 0 ELSE SumValues(calls, k - 1) + calls[k].value

\* sum over the first k calls of value_i * factor^(i-1)
RECURSIVE WeightedSum(_, _, _)
WeightedSum(calls, k, factor) ==
    IF k = 0 THEN Rat(0)
    ELSE RatAdd(WeightedSum(calls, k - 1, factor),
                RatMul(Rat(calls[k].value), RatPow(factor, k - 1)))

\* C1: for a pyramid of L >= 1 levels the value returned is the sum over
\* the levels of the level's loss times factor^i (level i counted from 0).
C1_GeometricWeights ==
    (w_pc = "returned" /\ Len(w_pyr) >= 1)
        => /\ w_result # None
           /\ RatEq(w_result, WeightedSum(w_calls, Len(w_calls), w_factor))

\* C4: a call with a zero-level pyramid never returns; it fails.
C4_EmptyPyramidFails ==
    Len(w_pyr) = 0 => w_pc # "returned"

LLPath(n) == [k \in 1..n |-> "LL"]

\* C10: the i-th decomposition (i from 0) takes the LL band of the (i-1)-th,
\* the 0-th the ground-truth image; there is one decomposition per level
\* done; the criterion of level i gets channels 3.. of predicted level i
\* and the bands LH, HL, HH of the i-th decomposition, in that order; with
\* factor 1 the value returned is the plain sum of the level losses.
C10_Decompositions ==
    /\ Len(w_dwt_in) = w_i
    /\ Len(w_calls) = w_i
    /\ w_pc = "returned" => w_i = Len(w_pyr)
    /\ \A i \in 1..Len(w_dwt_in) :
          /\ Len(w_dwt_in[i]) = ImageChannels
          /\ \A c \in 1..ImageChannels :
                w_dwt_in[i][c] =
                    [src |-> "gt", lvl |-> 0, ch |-> c, path |-> LLPath(i - 1)]
    /\ \A i \in 1..Len(w_calls) :
          /\ Len(w_calls[i].pred) = 3 * ImageChannels
          /\ \A k \in 1..(3 * ImageChannels) :
                w_calls[i].pred[k] =
                    [src |-> "pred", lvl |-> i - 1, ch |-> k + 3, path |-> << >>]
          /\ Len(w_calls[i].gt) = 3 * ImageChannels
          /\ \A b \in 1..3 : \A c \in 1..ImageChannels :
                w_calls[i].gt[(b - 1) * ImageChannels + c] =
                    [src |-> "gt", lvl |-> 0, ch |-> c,
                     path |-> Append(LLPath(i - 1), Bands[b + 1])]
    /\ (w_pc = "returned" /\ Len(w_pyr) >= 1 /\ RatEq(w_factor, Rat(1)))
          => /\ w_result # None
             /\ RatEq(w_result, Rat(SumValues(w_calls, Len(w_calls))))

C10_Witness ==
    /\ w_pc = "returned"
    /\ Len(w_pyr) = 3
    /\ w_factor = Rat(1)
    /\ \A i \in 1..3 : w_calls[i].value = i - 1
    /\ w_result # None
    /\ RatEq(w_result, Rat(3))

(***************************************************************************)
(* Properties of _compute_deep_iwt_loss                                    *)
(***************************************************************************)
AllEntries(t, v) ==
    \A k \in 1..Len(t) : \A r \in 1..Len(t[k]) : \A c \in 1..Len(t[k][r]) :
        t[k][r][c] = v

\* every detail band of every level of pyr is zero
ZeroDetails(pyr) ==
    \A i \in 1..Len(pyr) : AllEntries(SliceFrom(pyr[i], ImageChannels), 0)

\* the value of the coarsest approximation band, a constant band
DeepestValue(pyr) == pyr[Len(pyr)][1][1][1]

ConstantDeepest(pyr) ==
    AllEntries(SliceTo(pyr[Len(pyr)], ImageChannels), DeepestValue(pyr))

IwtCase ==
    /\ i_pc = "returned"
    /\ Len(i_pyr) >= 1
    /\ ZeroDetails(i_pyr)
    /\ ConstantDeepest(i_pyr)

\* C6 as stated: with zero detail bands and the coarsest approximation the
\* constant v, the chain makes L inversions and ends in the constant image
\* v * 2^L.
C6_ScaledByTwoPowL ==
    IwtCase =>
        /\ i_inversions = Len(i_pyr)
        /\ AllEntries(i_composed,
                      DeepestValue(i_pyr) * Pow(2, Len(i_pyr)))

\* C6 amended: with zero detail bands and the coarsest approximation the
\* constant v, the chain makes L inversions, each followed by the
\* multiplication by 2, and ends in an image of ImageChannels channels of
\* 2^L x 2^L entries (the coarsest band being 1 x 1), each of value v.
C6_ConstantPreserved ==
    /\ i_pc = "loop" => i_inversions = Len(i_pyr) - 1 - i_i
    /\ IwtCase =>
        /\ i_inversions = Len(i_pyr)
        /\ Len(i_composed) = ImageChannels
        /\ \A k \in 1..ImageChannels :
              /\ Len(i_composed[k]) = Pow(2, Len(i_pyr))
              /\ \A r \in 1..Len(i_composed[k]) :
                    Len(i_composed[k][r]) = Pow(2, Len(i_pyr))
        /\ AllEntries(i_composed, DeepestValue(i_pyr))

C6_Witness ==
    /\ IwtCase
    /\ Len(i_pyr) = 3
    /\ DeepestValue(i_pyr) = 4
    /\ i_pyr[1][1][1][1] = 6
    /\ i_inversions = 3
    /\ AllEntries(i_composed, 4)

(***************************************************************************)
(* Properties of _save_best_checkpoint                                     *)
(***************************************************************************)
\* 10.0, 9.9, 10.2, 10.2000001
ExampleAccuracies ==
    <<Rat(100000000), Rat(99000000), Rat(102000000), Rat(102000001)>>

\* C2: every call writes last.trh; it writes best.trh and sets
\* best_test_score to the new accuracy exactly when
\* best_test_score - accuracy < -1e-5, and otherwise leaves both alone; on
\* the accuracies 10.0, 9.9, 10.2, 10.2000001 from a fresh pipeline
\* best.trh is written at calls 1 and 3 only.
C2_BestIffImproved ==
    [][ LET n    == Len(c_hist')
            acc  == c_hist'[n]
            rec  == [file |-> TRUE, acc |-> acc, epoch |-> n]
            diff == best_test_score[1] * acc[2] - acc[1] * best_test_score[2]
        IN  /\ n = Len(c_hist) + 1
            /\ last_writes' = last_writes + 1
            /\ last_trh' = rec
            /\ IF diff < (0 - AccEpsilon) * best_test_score[2] * acc[2]
                 THEN /\ best_writes' = best_writes + 1
                      /\ best_trh' = rec
                      /\ best_test_score' = acc
                      /\ c_best_steps' = c_best_steps \cup {n}
                 ELSE UNCHANGED <<best_writes, best_trh, best_test_score,
                                  c_best_steps>>
            /\ c_hist' = ExampleAccuracies => c_best_steps' = {1, 3}
      ]_vars

C2_Witness ==
    /\ c_hist = ExampleAccuracies
    /\ c_best_steps = {1, 3}
    /\ best_writes = 2
    /\ last_writes = 4
    /\ best_trh = [file |-> TRUE, acc |-> Rat(102000000), epoch |-> 3]
    /\ last_trh = [file |-> TRUE, acc |-> Rat(102000001), epoch |-> 4]

(***************************************************************************)
(* Properties of _train_step and _validation_step                          *)
(***************************************************************************)
RECURSIVE SumSeq(_, _)
SumSeq(q, k) == IF k = 0 THEN 0 ELSE SumSeq(q, k - 1) + q[k]

\* twice the pixel loss of line 340-344 / 415-418 on the values px, pl
TwicePixel(px, pl) == IF perceptual THEN px + pl ELSE 2 * px

\* ten times pixel loss + 0.2 * (sum of the level losses)
TenTimesComposed(x) == 5 * TwicePixel(x.px, x.pl) + 2 * SumSeq(x.lv, Len(x.lv))

RECURSIVE SumTwicePixel(_, _)
SumTwicePixel(ss, k) ==
    IF k = 0 THEN 0
    ELSE SumTwicePixel(ss, k - 1) + TwicePixel(ss[k].px, ss[k].pl)

RECURSIVE SumTenTimesComposed(_, _)
SumTenTimesComposed(ss, k) ==
    IF k = 0 THEN 0
    ELSE SumTenTimesComposed(ss, k - 1) + TenTimesComposed(ss[k])

\* C5 as stated: the loss _validation_step returns is the average over the
\* samples of pixel loss + 0.2 * wavelet pyramid loss.
C5_SameComposition ==
    (e_pc = "returned" /\ test_len > 0)
        => RatEq(avg_loss_rate,
                 <<SumTenTimesComposed(e_samples, Len(e_samples)), 10 * test_len>>)

\* C5 amended: the loss of a validation sample is the pixel loss, blended
\* 50/50 with the perceptual loss when there is one, with no wavelet term;
\* _validation_step returns its average over the samples (0 without
\* samples).
C5_PixelLossOnly ==
    /\ test_len = Len(e_samples)
    /\ e_pc = "validate"
         => RatEq(avg_loss_rate,
                  <<SumTwicePixel(e_samples, Len(e_samples)), 2>>)
    /\ (e_pc = "returned" /\ test_len > 0)
         => /\ test_len = n_val
            /\ RatEq(avg_loss_rate,
                     <<SumTwicePixel(e_samples, Len(e_samples)), 2 * test_len>>)
    /\ (e_pc = "returned" /\ test_len = 0) => RatEq(avg_loss_rate, Rat(0))

C5_Witness ==
    /\ e_pc = "returned"
    /\ perceptual
    /\ test_len = 1
    /\ e_samples[1].px = 2 /\ e_samples[1].pl = 6 /\ e_samples[1].lv = <<5, 5>>
    /\ RatEq(avg_loss_rate, Rat(4))

IndexOf(q, x) == CHOOSE i \in 1..Len(q) : q[i] = x

Has(q, x) == \E i \in 1..Len(q) : q[i] = x

\* C8 as stated: when the backward pass of a batch starts, the wavelet
\* pyramid loss and the deep inverse reconstruction loss have both been
\* computed since the forward pass.
C8_BothLosses ==
    e_pc = "losses"
        => /\ Has(e_calls, "_compute_wavelets_loss")
           /\ Has(e_calls, "_compute_deep_iwt_loss")

\* C8 amended: in every batch the wavelet pyramid loss is computed after
\* the forward pass and before the backward pass, and the loss that is
\* backpropagated is pixel loss + 0.2 * wavelet pyramid loss; the deep
\* inverse reconstruction loss is not computed.
C8_WaveletLossOnly ==
    /\ ~Has(e_calls, "_compute_deep_iwt_loss")
    /\ e_pc = "losses"
         => /\ Has(e_calls, "model")
            /\ Has(e_calls, "_compute_wavelets_loss")
            /\ IndexOf(e_calls, "model") < IndexOf(e_calls, "_compute_wavelets_loss")
            /\ ~Has(e_calls, "backward")
            /\ ~Has(e_calls, "optimizer.step")
            /\ RatEq(e_total, <<TenTimesComposed(e_batch), 10>>)
    /\ Has(e_calls, "backward")
         => /\ IndexOf(e_calls, "model") < IndexOf(e_calls, "_compute_wavelets_loss")
            /\ IndexOf(e_calls, "_compute_wavelets_loss") < IndexOf(e_calls, "backward")
            /\ IndexOf(e_calls, "backward") < IndexOf(e_calls, "optimizer.step")
            /\ RatEq(e_backprop, <<TenTimesComposed(e_batch), 10>>)
    /\ e_opt_steps = e_b

C8_Witness ==
    /\ e_pc = "train"
    /\ e_b = 1
    /\ Has(e_calls, "backward")
    /\ perceptual
    /\ e_batch = [px |-> 2, pl |-> 6, lv |-> <<5, 5>>]
    /\ RatEq(e_backprop, Rat(6))

(***************************************************************************)
(* Properties of fit                                                       *)
(***************************************************************************)
\* rate - stop_criteria < -1e-9
Below(rate) == rate + StopTolerance < stop_criteria

Max(a, b) == IF a > b THEN a ELSE b

\* C3: fit breaks at the end of the first epoch at which there is a
\* scheduler and the rate read there is below stop_criteria by more than
\* 1e-9, and of no earlier epoch; without a scheduler, or when no epoch ends
\* so, every epoch up to epochs runs.
C3_StopAtFirstEpochBelow ==
    /\ Len(end_lr) <= Len(executed)
    /\ \A k \in 1..Len(end_lr) :
          (scheduler.active /\ Below(end_lr[k]))
              => (k = Len(end_lr) /\ final = "criteria_met")
    /\ final = "criteria_met"
          => /\ pc = "done"
             /\ scheduler.active
             /\ Len(end_lr) = Len(executed)
             /\ Len(end_lr) >= 1
             /\ Below(end_lr[Len(end_lr)])
    /\ final = "max_epochs"
          => /\ pc = "done"
             /\ Len(end_lr) = Len(executed)
             /\ Len(executed) = Max(0, epochs - resume_epoch + 1)
             /\ \A k \in 1..Len(executed) : executed[k] = resume_epoch + k - 1
    /\ ~scheduler.active => final # "criteria_met"

\* stop_criteria 1e-7, the rate 5e-7 decays to 5e-8 at the second epoch
C3_Witness ==
    /\ pc = "done"
    /\ final = "criteria_met"
    /\ stop_criteria = 100000
    /\ end_lr = <<500000, 50000>>
    /\ executed = <<1, 2>>
    /\ epochs = 3

FitBounds ==
    /\ final \in {"running", "criteria_met", "max_epochs"}
    /\ (pc = "done") = (final # "running")
    /\ Len(executed) <= Max(0, epochs - resume_epoch + 1)
    /\ \A k \in 1..Len(executed) : executed[k] = resume_epoch + k - 1
    /\ resume_epoch > epochs => executed = << >>

\* C7: fit ends, in the state criteria_met or in the state max_epochs; it
\* runs at most max(0, epochs - resume_epoch + 1) epochs, numbered
\* resume_epoch, resume_epoch + 1, ..., and none when resume_epoch > epochs.
C7_Terminates == <>(pc = "done") /\ []FitBounds

C7_Witness ==
    /\ pc = "done"
    /\ final = "max_epochs"
    /\ resume_epoch = 2
    /\ epochs = 3
    /\ executed = <<2, 3>>

ExpectedPhases ==
    IF scheduler.active
      THEN <<"train", "validate", "scheduler", "checkpoint", "stop_check">>
      ELSE <<"train", "validate", "checkpoint", "stop_check">>

IsPrefix(p, q) == Len(p) <= Len(q) /\ p = SubSeq(q, 1, Len(p))

\* C9: the phases of an epoch come in the order train, validation scoring,
\* scheduler step, checkpoint, stop check; a scheduler is stepped once per
\* epoch, also when there is no validation sample, after the scoring and
\* before the checkpoint; every epoch, the one that stops the run included,
\* writes last.trh.
C9_PhaseOrder ==
    /\ IsPrefix(phases, ExpectedPhases)
    /\ (pc \in {"for", "done"} /\ executed # << >>) => phases = ExpectedPhases
    /\ pc = "save" => phases = SubSeq(ExpectedPhases, 1, Len(ExpectedPhases) - 2)
    /\ pc = "check" => phases = SubSeq(ExpectedPhases, 1, Len(ExpectedPhases) - 1)
    /\ f_sched_steps =
          IF ~scheduler.active THEN 0
          ELSE IF pc \in {"save", "check"} THEN Len(end_lr) + 1
          ELSE Len(end_lr)
    /\ scheduler.active => scheduler.last_epoch = f_sched_steps
    /\ last_writes = IF pc = "check" THEN Len(end_lr) + 1 ELSE Len(end_lr)
    /\ (pc \in {"for", "done"} /\ executed # << >>)
          => /\ last_writes = Len(executed)
             /\ last_trh.file
             /\ last_trh.epoch = executed[Len(executed)]

\* an early stop in a run without validation samples
C9_Witness ==
    /\ pc = "done"
    /\ final = "criteria_met"
    /\ n_val = 0
    /\ Len(executed) = 2
    /\ f_sched_steps = 2
    /\ last_trh.epoch = 2
    /\ last_writes = 2
    /\ phases = <<"train", "validate", "scheduler", "checkpoint", "stop_check">>

(***************************************************************************)
(* Checkpoint selection within one run                                     *)
(***************************************************************************)
\* best_test_score >= acc - 1e-5
WithinTolerance(best, acc) == ~RatLt(RatAdd(best, Rat(AccEpsilon)), acc)

CkptSelectionInv ==
    /\ \A i \in 1..Len(c_hist) : WithinTolerance(best_test_score, c_hist[i])
    /\ best_writes > 0 =>
         /\ best_trh.file
         /\ RatEq(best_trh.acc, best_test_score)
         /\ best_trh.epoch \in c_best_steps
         /\ \A n \in c_best_steps : n <= best_trh.epoch

CkptSelectionStep ==
    /\ ~RatLt(best_test_score', best_test_score)
    /\ IF RatEq(best_test_score', best_test_score)
         THEN UNCHANGED <<best_trh, best_writes>>
         ELSE /\ best_writes' = best_writes + 1
              /\ best_trh'.epoch = Len(c_hist')

\* C11: within one run best_test_score never decreases, it is at least
\* every accuracy seen so far minus 1e-5, and once best.trh has been
\* written its acc is the current best_test_score and its epoch is the
\* epoch at which best_test_score last changed.
C11_BestSelection == []CkptSelectionInv /\ [][CkptSelectionStep]_vars

C11_Witness ==
    /\ c_hist = <<Rat(100), Rat(101), Rat(100000000), Rat(99000000)>>
    /\ best_test_score = Rat(100000000)
    /\ best_trh = [file |-> TRUE, acc |-> Rat(100000000), epoch |-> 3]
    /\ best_writes = 2
    /\ last_trh.epoch = 4

(***************************************************************************)
(* The best score of a new pipeline, fresh or resumed                      *)
(***************************************************************************)
\* accuracy <= 1e-5
AtMostEpsilon(acc) == ~RatLt(Rat(AccEpsilon), acc)

FirstAboveEpsilon(i) ==
    /\ ~AtMostEpsilon(c_hist[i])
    /\ \A j \in 1..(i - 1) : AtMostEpsilon(c_hist[j])

\* C12: best_test_score starts at 0 whatever record was loaded, an empty
\* validation set scores accuracy 0, no best.trh is written while every
\* accuracy is at most 1e-5, and the first epoch whose accuracy exceeds
\* 1e-5 writes best.trh whatever accuracy the loaded record holds.
C12_BestFromZero ==
    /\ InitialBestScore(load_data) = Rat(0)
    /\ \A perc \in BOOLEAN : ValidationScores(<< >>, perc).acc = Rat(0)
    /\ (\A i \in 1..Len(c_hist) : AtMostEpsilon(c_hist[i])) =>
          /\ best_writes = 0
          /\ c_best_steps = {}
          /\ best_test_score = Rat(0)
    /\ \A i \in 1..Len(c_hist) :
          FirstAboveEpsilon(i) =>
            /\ i \in c_best_steps
            /\ \A j \in 1..(i - 1) : j \notin c_best_steps
            /\ i = Len(c_hist) =>
                  best_trh = [file |-> TRUE, acc |-> c_hist[i], epoch |-> i]

C12_Witness ==
    /\ load_data = OldRecord
    /\ c_hist = <<Rat(0), Rat(100), Rat(101)>>
    /\ c_best_steps = {3}
    /\ best_trh = [file |-> TRUE, acc |-> Rat(101), epoch |-> 3]
    /\ RatLt(best_trh.acc, load_data.acc)

(***************************************************************************)
(* The rate at which the epochs of fit train                               *)
(***************************************************************************)
\* C13: with a scheduler, every epoch after the first executed one starts
\* at the rate the stop check of the epoch before read and found not below
\* stop_criteria by more than 1e-9; the epoch at whose end the rate is
\* first below is the last one executed; and when the first epoch does not
\* start below, no _train_step call runs at a rate below.
C13_NoTrainingBelowThreshold ==
    scheduler.active =>
      /\ Len(trained) <= Len(executed)
      /\ Len(end_lr) <= Len(trained)
      /\ \A k \in 2..Len(trained) :
            /\ trained[k].rate = end_lr[k - 1]
            /\ ~Below(trained[k].rate)
      /\ \A k \in 1..Len(end_lr) :
            Below(end_lr[k]) =>
              /\ Len(executed) = k
              /\ Len(trained) = k
              /\ executed[k] = trained[k].epoch
              /\ pc = "done"
      /\ (Len(trained) >= 1 /\ ~Below(trained[1].rate)) =>
            \A k \in 1..Len(trained) : ~Below(trained[k].rate)

\* stop_criteria 1e-7: two epochs train at 5e-6 and 5e-7, the second ends
\* at 5e-8 and is the last
C13_Witness ==
    /\ scheduler.active
    /\ pc = "done"
    /\ n_train > 0
    /\ Len(trained) = 2
    /\ trained[1].rate = 5000000 /\ trained[2].rate = 500000
    /\ ~Below(trained[2].rate)
    /\ Below(lr)
    /\ Len(executed) < epochs - resume_epoch + 1

====
